---- MODULE Spec2Model ----
(***************************************************************************)
(* A model of the portfolio site's run-time logic: the blog post page and *)
(* its hand-rolled markdown renderer (two copies), the static blog data   *)
(* helpers, the JSON-LD schema module and the Header's mobile menu.       *)
(*                                                                         *)
(* A JavaScript string is a sequence of characters, each a TLA+ string.    *)
(***************************************************************************)
EXTENDS Integers, Sequences, FiniteSets, TLC

VARIABLES
  \* renderContent: which copy runs, its argument and its locals
  copy, content, lines, index, elements, currentCodeBlock, inCodeBlock, codeLanguage, pc,
  \* src/lib/blog-data.ts: the module-level array, and what the last call of
  \* a helper, of generateMetadata and of BlogPostPage returned
  blogPosts, returned, metadata, page,
  \* Header (src/unnamed/part_002): its two states, the window's scroll
  \* position, document.body.style.overflow, whether the component is
  \* mounted, whether the [isOpen] effect has yet to run, whether the mobile
  \* menu is in the document, and the last event dispatched
  isOpen, isScrolled, scrollY, bodyOverflow, mounted, effectPending, menuPresent, lastEvent,
  \* src/lib/structured-data.ts: the clock (hours since 1970-01-01T00:00Z),
  \* and for each process that loads the module what the module evaluated
  \* to and what generateSchemaScript() returned
  now, schemaModule, schemaScript,
  \* src/components/ui/motion-wrapper.tsx: what useReducedMotion() returns
  \* for this user, and the component last rendered with its props and the
  \* element it returned
  shouldReduceMotion, rendered,
  \* Contact (src/components/sections/contact.tsx): its two states, the
  \* timers set by handleSubmit and not yet run (the submit that set each,
  \* and the milliseconds left), the number of submits so far, and the last
  \* event dispatched
  formState, submitted, timers, submits, contactEvent

renderVars == <<copy, content, lines, index, elements, currentCodeBlock, inCodeBlock, codeLanguage, pc>>

blogVars == <<blogPosts, returned, metadata, page>>

headerVars == <<isOpen, isScrolled, scrollY, bodyOverflow, mounted, effectPending, menuPresent, lastEvent>>

schemaVars == <<now, schemaModule, schemaScript>>

motionVars == <<shouldReduceMotion, rendered>>

contactVars == <<formState, submitted, timers, submits, contactEvent>>

vars == <<renderVars, blogVars, headerVars, schemaVars, motionVars, contactVars>>

\* ------------------------------------------------------------------ bounds

\* Longest content of the character-level families.
MaxInlineLen == 4
MaxStructLen == 4
\* Most lines of a content assembled from the line pool.
MaxLines == 3
\* Most lines of a content assembled from the fence pool.
MaxFenceLines == 6
\* Most tokens (a delimiter or a character) of a content of delimiters.
MaxDelimTokens == 6
\* Most submits of the contact form in one run.
MaxSubmits == 3
\* Most posts of blogPosts.
MaxPosts == 3
\* Most ticks of the clock, and the hours of one tick.
MaxTicks == 4
TickHours == 8

\* ------------------------------------------------------------ characters

NL == "\n"
AMP == "&"
LT == "<"
GT == ">"
QUOT == "\""
APOS == "'"
STAR == "*"
\* The grave accent (U+0060), which a TLA+ string cannot hold: named instead.
TICK == "GRAVE"
HASH == "#"
DASH == "-"
SP == " "

\* The characters String.prototype.trim removes.
WhiteSpace == {SP, NL, "\t", "\r"}

Fence == <<TICK, TICK, TICK>>
\* A plausible slip: the space of the h1 marker is forgotten.
H1MarkerNoSpace == <<HASH>>
H1Marker == <<HASH, SP>>
H2Marker == <<HASH, HASH, SP>>
H3Marker == <<HASH, HASH, HASH, SP>>
RuleMarker == <<DASH, DASH, DASH>>
BoldDelim == <<STAR, STAR>>
CodeDelim == <<TICK>>

StrongOpen == <<"<", "s", "t", "r", "o", "n", "g", ">">>
StrongClose == <<"<", "/", "s", "t", "r", "o", "n", "g", ">">>
CodeOpen == <<"<", "c", "o", "d", "e", " ", "c", "l", "a", "s", "s", "=", "\"", "b", "g", "-", "m", "u", "t", "e", "d", " ", "p", "x", "-", "1", ".", "5", " ", "p", "y", "-", "0", ".", "5", " ", "r", "o", "u", "n", "d", "e", "d", " ", "t", "e", "x", "t", "-", "s", "m", "\"", ">">>
CodeClose == <<"<", "/", "c", "o", "d", "e", ">">>
AmpEntity == <<"&", "a", "m", "p", ";">>
LtEntity == <<"&", "l", "t", ";">>
GtEntity == <<"&", "g", "t", ";">>
QuotEntity == <<"&", "q", "u", "o", "t", ";">>
AposEntity == <<"&", "#", "0", "3", "9", ";">>

\* ------------------------------------------------- JavaScript string methods

\* s.startsWith(p)
StartsWith(s, p) == Len(s) >= Len(p) /\ SubSeq(s, 1, Len(p)) = p

\* p occurs in s at position i (1-based)
OccursAt(s, p, i) ==
  /\ i >= 1
  /\ i + Len(p) - 1 <= Len(s)
  /\ (p = <<>> \/ s[i] = p[1])
  /\ SubSeq(s, i, i + Len(p) - 1) = p

\* s.trim()
RECURSIVE TrimStart(_)
TrimStart(s) == IF s # <<>> /\ Head(s) \in WhiteSpace THEN TrimStart(Tail(s)) ELSE s

RECURSIVE TrimEnd(_)
TrimEnd(s) == IF s # <<>> /\ s[Len(s)] \in WhiteSpace THEN TrimEnd(SubSeq(s, 1, Len(s) - 1)) ELSE s

Trim(s) == TrimEnd(TrimStart(s))

\* s.split('\n'): the pieces between the newlines; one (empty) piece for the empty string.
RECURSIVE SplitLines(_)
SplitLines(s) ==
  IF \E i \in 1..Len(s) : s[i] = NL
  THEN LET i == CHOOSE k \in 1..Len(s) : s[k] = NL /\ \A m \in 1..(k - 1) : s[m] # NL
       IN  <<SubSeq(s, 1, i - 1)>> \o SplitLines(SubSeq(s, i + 1, Len(s)))
  ELSE <<s>>

\* ls.join('\n')
RECURSIVE JoinLines(_)
JoinLines(ls) ==
  IF ls = <<>> THEN <<>>
  ELSE IF Len(ls) = 1 THEN ls[1]
  ELSE ls[1] \o <<NL>> \o JoinLines(Tail(ls))

\* s.replace(p, r) with a string pattern: the first occurrence only.
ReplaceFirst(s, p, r) ==
  IF \E i \in 1..Len(s) : OccursAt(s, p, i)
  THEN LET i == CHOOSE k \in 1..Len(s) : OccursAt(s, p, k) /\ \A m \in 1..(k - 1) : ~OccursAt(s, p, m)
       IN  SubSeq(s, 1, i - 1) \o r \o SubSeq(s, i + Len(p), Len(s))
  ELSE s

\* s.replace(/c/g, r) for a one-character pattern c.
RECURSIVE ReplaceAllChar(_, _, _)
ReplaceAllChar(s, c, r) ==
  IF s = <<>> THEN <<>>
  ELSE (IF Head(s) = c THEN r ELSE <<Head(s)>>) \o ReplaceAllChar(Tail(s), c, r)

\* The end of the match of /d(.+?)d/ that starts at i: the position of the
\* first closing d with at least one character (none a line terminator,
\* which "." does not match) after the opening d; 0 when there is no match at i.
PairClose(s, d, i) ==
  LET cands == { j \in (i + Len(d) + 1)..Len(s) :
                   /\ OccursAt(s, d, j)
                   /\ \A k \in (i + Len(d))..(j - 1) : s[k] \notin {NL, "\r"} }
  IN  IF OccursAt(s, d, i) /\ cands # {}
      THEN CHOOSE j \in cands : \A k \in cands : j <= k
      ELSE 0

\* s.replace(/d(.+?)d/g, open $1 close), scanning from position i: matches
\* are taken leftmost first, each as short as possible, without overlap.
RECURSIVE ReplacePairsFrom(_, _, _, _, _)
ReplacePairsFrom(s, d, open, close, i) ==
  IF i > Len(s) THEN <<>>
  ELSE LET j == PairClose(s, d, i)
       IN  IF j # 0
           THEN open \o SubSeq(s, i + Len(d), j - 1) \o close
                  \o ReplacePairsFrom(s, d, open, close, j + Len(d))
           ELSE <<s[i]>> \o ReplacePairsFrom(s, d, open, close, i + 1)

ReplacePairs(s, d, open, close) == ReplacePairsFrom(s, d, open, close, 1)

\* ------------------------------------------------------- the renderer (page)

\* A plausible slip: the ampersand is escaped last, so the ampersands of the
\* entities just written are escaped again.
escapeHtmlAmpLast(unsafe) ==
  ReplaceAllChar(
    ReplaceAllChar(
      ReplaceAllChar(
        ReplaceAllChar(
          ReplaceAllChar(unsafe, LT, LtEntity),
          GT, GtEntity),
        QUOT, QuotEntity),
      APOS, AposEntity),
    AMP, AmpEntity)

\* escapeHtml of src/app/blog/[slug]/page.tsx
escapeHtml(unsafe) ==
  ReplaceAllChar(
    ReplaceAllChar(
      ReplaceAllChar(
        ReplaceAllChar(
          ReplaceAllChar(unsafe, AMP, AmpEntity),
          LT, LtEntity),
        GT, GtEntity),
      QUOT, QuotEntity),
    APOS, AposEntity)

\* A plausible slip: the replacement of the code spans is forgotten.
formatInlineBoldOnly(s) == ReplacePairs(s, BoldDelim, StrongOpen, StrongClose)

\* The two regular-expression replacements of a paragraph line.
formatInline(s) ==
  ReplacePairs(ReplacePairs(s, BoldDelim, StrongOpen, StrongClose),
               CodeDelim, CodeOpen, CodeClose)

\* A React element: its kind, its key (prefix and line index), its text
\* child (or __html, or nothing) and, for a code block, the language.
Element(kind, pre, idx, text, lang) ==
  [kind |-> kind, pre |-> pre, idx |-> idx, text |-> text, lang |-> lang]

\* The <pre><code> element of a code block.
CodeBlockElement(pre, idx, st) ==
  Element("pre", pre, idx, JoinLines(st.currentCodeBlock), st.codeLanguage)

\* The locals of renderContent before the loop.
RenderStart ==
  [elements |-> <<>>, currentCodeBlock |-> <<>>, inCodeBlock |-> FALSE, codeLanguage |-> <<>>]

\* page.tsx, a fence line outside a code block: the block opens.
openCodeBlock(st, line) ==
  [st EXCEPT !.inCodeBlock = TRUE,
             !.codeLanguage = Trim(ReplaceFirst(line, Fence, <<>>))]

\* A plausible slip: the collected lines are not cleared when the block closes.
closeCodeBlockNoReset(st, ix) ==
  [st EXCEPT !.elements = Append(@, CodeBlockElement("code", ix, st)),
             !.inCodeBlock = FALSE,
             !.codeLanguage = <<>>]

\* page.tsx, a fence line inside a code block: the block is emitted and closed.
closeCodeBlock(st, ix) ==
  [st EXCEPT !.elements = Append(@, CodeBlockElement("code", ix, st)),
             !.currentCodeBlock = <<>>,
             !.inCodeBlock = FALSE,
             !.codeLanguage = <<>>]

\* page.tsx, a paragraph line: escaped, then bold and code re-enabled.
renderParagraph(line) == formatInline(escapeHtml(line))

\* A plausible slip: a paragraph is put in front of the elements (unshift)
\* instead of behind them (push).
renderTextLineUnshift(st, line, ix) ==
  IF StartsWith(line, H1Marker) THEN
    [st EXCEPT !.elements = Append(@, Element("h1", "", ix, escapeHtml(ReplaceFirst(line, H1Marker, <<>>)), <<>>))]
  ELSE IF StartsWith(line, H2Marker) THEN
    [st EXCEPT !.elements = Append(@, Element("h2", "", ix, escapeHtml(ReplaceFirst(line, H2Marker, <<>>)), <<>>))]
  ELSE IF StartsWith(line, H3Marker) THEN
    [st EXCEPT !.elements = Append(@, Element("h3", "", ix, escapeHtml(ReplaceFirst(line, H3Marker, <<>>)), <<>>))]
  ELSE IF StartsWith(line, RuleMarker) THEN
    [st EXCEPT !.elements = Append(@, Element("Separator", "", ix, <<>>, <<>>))]
  ELSE IF Trim(line) = <<>> THEN
    st
  ELSE
    [st EXCEPT !.elements = <<Element("p", "", ix, renderParagraph(line), <<>>)>> \o @]

\* page.tsx, a line that is neither a fence nor inside a code block.
renderTextLine(st, line, ix) ==
  IF StartsWith(line, H1Marker) THEN
    [st EXCEPT !.elements = Append(@, Element("h1", "", ix, escapeHtml(ReplaceFirst(line, H1Marker, <<>>)), <<>>))]
  ELSE IF StartsWith(line, H2Marker) THEN
    [st EXCEPT !.elements = Append(@, Element("h2", "", ix, escapeHtml(ReplaceFirst(line, H2Marker, <<>>)), <<>>))]
  ELSE IF StartsWith(line, H3Marker) THEN
    [st EXCEPT !.elements = Append(@, Element("h3", "", ix, escapeHtml(ReplaceFirst(line, H3Marker, <<>>)), <<>>))]
  ELSE IF StartsWith(line, RuleMarker) THEN
    [st EXCEPT !.elements = Append(@, Element("Separator", "", ix, <<>>, <<>>))]
  ELSE IF Trim(line) = <<>> THEN
    st
  ELSE
    [st EXCEPT !.elements = Append(@, Element("p", "", ix, renderParagraph(line), <<>>))]

\* One call of the forEach callback of page.tsx on (line, index).
renderLine(st, line, ix) ==
  IF StartsWith(line, Fence) THEN
    IF ~st.inCodeBlock THEN openCodeBlock(st, line) ELSE closeCodeBlock(st, ix)
  ELSE IF st.inCodeBlock THEN
    [st EXCEPT !.currentCodeBlock = Append(@, line)]
  ELSE
    renderTextLine(st, line, ix)

\* A plausible slip: the check is dropped and an unclosed block is lost.
renderPendingDropped(st) == st

\* After the loop of page.tsx: the pending code block, if any.
renderPending(st) ==
  IF st.inCodeBlock /\ Len(st.currentCodeBlock) > 0
  THEN [st EXCEPT !.elements = Append(@, CodeBlockElement("code-end", -1, st))]
  ELSE st

\* What the reader sees of a text child. React writes a string child into
\* the document with & < > " ' escaped, and the browser reads the character
\* references back as it parses the document.
HexAposEntity == <<"&", "#", "x", "2", "7", ";">>

escapeTextForBrowser(text) ==
  ReplaceAllChar(
    ReplaceAllChar(
      ReplaceAllChar(
        ReplaceAllChar(
          ReplaceAllChar(text, AMP, AmpEntity),
          LT, LtEntity),
        GT, GtEntity),
      QUOT, QuotEntity),
    APOS, HexAposEntity)

\* The character references the browser decodes, and their characters.
CharacterReferences ==
  { <<AmpEntity, AMP>>, <<LtEntity, LT>>, <<GtEntity, GT>>, <<QuotEntity, QUOT>>,
    <<AposEntity, APOS>>, <<HexAposEntity, APOS>> }

RECURSIVE decodeEntitiesFrom(_, _)
decodeEntitiesFrom(html, i) ==
  IF i > Len(html) THEN <<>>
  ELSE IF \E r \in CharacterReferences : OccursAt(html, r[1], i)
  THEN LET r == CHOOSE x \in CharacterReferences : OccursAt(html, x[1], i)
       IN  <<r[2]>> \o decodeEntitiesFrom(html, i + Len(r[1]))
  ELSE <<html[i]>> \o decodeEntitiesFrom(html, i + 1)

decodeEntities(html) == decodeEntitiesFrom(html, 1)

\* The text shown for a heading: {escapeHtml(...)} is a text child.
HeadingTextShown(e) == decodeEntities(escapeTextForBrowser(e.text))

\* --------------------------------------------------- the renderer (part_001)

\* part_001, a fence line outside a code block: the language is not trimmed.
openCodeBlock2(st, line) ==
  [st EXCEPT !.inCodeBlock = TRUE,
             !.codeLanguage = ReplaceFirst(line, Fence, <<>>)]

\* part_001, a fence line inside a code block.
closeCodeBlock2(st, ix) ==
  [st EXCEPT !.elements = Append(@, CodeBlockElement("code", ix, st)),
             !.currentCodeBlock = <<>>,
             !.inCodeBlock = FALSE,
             !.codeLanguage = <<>>]

\* part_001, a paragraph line: bold and code on the line as it is.
renderParagraph2(line) == formatInline(line)

\* part_001, a line that is neither a fence nor inside a code block.
renderTextLine2(st, line, ix) ==
  IF StartsWith(line, H1Marker) THEN
    [st EXCEPT !.elements = Append(@, Element("h1", "", ix, ReplaceFirst(line, H1Marker, <<>>), <<>>))]
  ELSE IF StartsWith(line, H2Marker) THEN
    [st EXCEPT !.elements = Append(@, Element("h2", "", ix, ReplaceFirst(line, H2Marker, <<>>), <<>>))]
  ELSE IF StartsWith(line, H3Marker) THEN
    [st EXCEPT !.elements = Append(@, Element("h3", "", ix, ReplaceFirst(line, H3Marker, <<>>), <<>>))]
  ELSE IF StartsWith(line, RuleMarker) THEN
    [st EXCEPT !.elements = Append(@, Element("Separator", "", ix, <<>>, <<>>))]
  ELSE IF Trim(line) = <<>> THEN
    st
  ELSE
    [st EXCEPT !.elements = Append(@, Element("p", "", ix, renderParagraph2(line), <<>>))]

\* A plausible slip: the text tests come before the test for an open block,
\* so a heading inside a code block is rendered as a heading.
renderLine2TextFirst(st, line, ix) ==
  IF StartsWith(line, Fence) THEN
    IF ~st.inCodeBlock THEN openCodeBlock2(st, line) ELSE closeCodeBlock2(st, ix)
  ELSE IF st.inCodeBlock /\ ~StartsWith(line, H1Marker) THEN
    [st EXCEPT !.currentCodeBlock = Append(@, line)]
  ELSE
    renderTextLine2(st, line, ix)

\* One call of the forEach callback of part_001 on (line, index).
renderLine2(st, line, ix) ==
  IF StartsWith(line, Fence) THEN
    IF ~st.inCodeBlock THEN openCodeBlock2(st, line) ELSE closeCodeBlock2(st, ix)
  ELSE IF st.inCodeBlock THEN
    [st EXCEPT !.currentCodeBlock = Append(@, line)]
  ELSE
    renderTextLine2(st, line, ix)

\* After the loop of part_001: the elements are returned as they are.
renderPending2(st) == st

\* -------------------------------------------------------- both copies

Copies == {"page", "part_001"}

RenderLineOf(c, st, line, ix) ==
  IF c = "page" THEN renderLine(st, line, ix) ELSE renderLine2(st, line, ix)

RenderPendingOf(c, st) ==
  IF c = "page" THEN renderPending(st) ELSE renderPending2(st)

\* lines = content.trim().split('\n')
LinesOf(c) == SplitLines(Trim(c))

\* The state of copy c after the first n lines of ls.
RECURSIVE RenderPrefix(_, _, _)
RenderPrefix(c, ls, n) ==
  IF n = 0 THEN RenderStart
  ELSE RenderLineOf(c, RenderPrefix(c, ls, n - 1), ls[n], n - 1)

\* renderContent(content) of copy c: the elements it returns.
renderContent(c, cont) ==
  LET ls == LinesOf(cont)
  IN  RenderPendingOf(c, RenderPrefix(c, ls, Len(ls))).elements

\* ------------------------------------------------------------ JavaScript Date

DigitVal ==
  [c \in {"0", "1", "2", "3", "4", "5", "6", "7", "8", "9"} |->
     CASE c = "0" -> 0 [] c = "1" -> 1 [] c = "2" -> 2 [] c = "3" -> 3 [] c = "4" -> 4
       [] c = "5" -> 5 [] c = "6" -> 6 [] c = "7" -> 7 [] c = "8" -> 8 [] c = "9" -> 9]

\* The number the decimal digits ds write.
RECURSIVE ParseInt(_)
ParseInt(ds) ==
  IF ds = <<>> THEN 0 ELSE 10 * ParseInt(SubSeq(ds, 1, Len(ds) - 1)) + DigitVal[ds[Len(ds)]]

\* Days from 1970-01-01 to the day d of month m of year y (proleptic Gregorian).
DaysFromCivil(y, m, d) ==
  LET yy == IF m <= 2 THEN y - 1 ELSE y
      era == yy \div 400
      yoe == yy - era * 400
      doy == ((153 * (IF m > 2 THEN m - 3 ELSE m + 9) + 2) \div 5) + d - 1
      doe == yoe * 365 + (yoe \div 4) - (yoe \div 100) + doy
  IN  era * 146097 + doe - 719468

\* new Date("YYYY-MM-DD").getTime(), in days (a date-only string is UTC
\* midnight, so the milliseconds are this number times 86400000).
DateTime(str) ==
  DaysFromCivil(ParseInt(SubSeq(str, 1, 4)), ParseInt(SubSeq(str, 6, 7)), ParseInt(SubSeq(str, 9, 10)))

\* The year, month and day of the day z days after 1970-01-01.
CivilFromDays(z) ==
  LET zz == z + 719468
      era == zz \div 146097
      doe == zz - era * 146097
      yoe == (doe - (doe \div 1460) + (doe \div 36524) - (doe \div 146096)) \div 365
      doy == doe - (365 * yoe + (yoe \div 4) - (yoe \div 100))
      mp == (5 * doy + 2) \div 153
      d == doy - ((153 * mp + 2) \div 5) + 1
      m == IF mp < 10 THEN mp + 3 ELSE mp - 9
  IN  [year |-> (yoe + era * 400) + (IF m <= 2 THEN 1 ELSE 0), month |-> m, day |-> d]

DigitChar == <<"0", "1", "2", "3", "4", "5", "6", "7", "8", "9">>

\* n in decimal, padded with zeros to w digits.
RECURSIVE Pad(_, _)
Pad(n, w) == IF w = 0 THEN <<>> ELSE Pad(n \div 10, w - 1) \o <<DigitChar[(n % 10) + 1]>>

\* n in decimal, as String(n) writes it.
RECURSIVE Decimal(_)
Decimal(n) == IF n < 10 THEN <<DigitChar[n + 1]>> ELSE Decimal(n \div 10) \o <<DigitChar[(n % 10) + 1]>>

\* new Date().toISOString() at hour h since the epoch, on the hour.
ToISOString(h) ==
  LET c == CivilFromDays(h \div 24)
  IN  Pad(c.year, 4) \o <<"-">> \o Pad(c.month, 2) \o <<"-">> \o Pad(c.day, 2)
        \o <<"T">> \o Pad(h % 24, 2) \o <<":", "0", "0", ":", "0", "0", ".", "0", "0", "0", "Z">>

\* s.split(sep)[0]: s up to its first sep.
SplitFirst(s, sep) ==
  IF \E i \in 1..Len(s) : s[i] = sep
  THEN SubSeq(s, 1, (CHOOSE i \in 1..Len(s) : s[i] = sep /\ \A j \in 1..(i - 1) : s[j] # sep) - 1)
  ELSE s

\* ---------------------------------------------------------- src/lib/blog-data.ts

\* A plausible slip: the operands of the subtraction are exchanged.
OlderFirst(a, b) == DateTime(a.date) - DateTime(b.date) < 0

\* The comparator of getAllPosts is negative: a goes before b.
NewerFirst(a, b) == DateTime(b.date) - DateTime(a.date) < 0

\* Array.prototype.sort is stable: x is inserted into the sorted posts after
\* every post it does not have to precede.
RECURSIVE InsertPost(_, _)
InsertPost(sorted, x) ==
  IF sorted = <<>> THEN <<x>>
  ELSE IF NewerFirst(x, Head(sorted)) THEN <<x>> \o sorted
  ELSE <<Head(sorted)>> \o InsertPost(Tail(sorted), x)

RECURSIVE SortPosts(_)
SortPosts(a) ==
  IF a = <<>> THEN <<>>
  ELSE InsertPost(SortPosts(SubSeq(a, 1, Len(a) - 1)), a[Len(a)])

\* getAllPosts(): blogPosts.sort(...) sorts the array in place and returns it.
getAllPosts(posts) == SortPosts(posts)

\* A plausible slip: a prefix of the slug is enough to match.
getPostBySlugPrefix(posts, slug) ==
  IF \E i \in 1..Len(posts) : StartsWith(posts[i].slug, slug)
  THEN <<posts[CHOOSE i \in 1..Len(posts) :
                 /\ StartsWith(posts[i].slug, slug)
                 /\ \A j \in 1..(i - 1) : ~StartsWith(posts[j].slug, slug)]>>
  ELSE <<>>

\* getPostBySlug(slug): the first post with that slug, as a sequence of one
\* post; the empty sequence stands for undefined.
getPostBySlug(posts, slug) ==
  IF \E i \in 1..Len(posts) : posts[i].slug = slug
  THEN <<posts[CHOOSE i \in 1..Len(posts) :
                 /\ posts[i].slug = slug
                 /\ \A j \in 1..(i - 1) : posts[j].slug # slug]>>
  ELSE <<>>

\* c.toLowerCase() on the letters the tags use.
LowerChar(c) ==
  CASE c = "R" -> "r" [] c = "N" -> "n" [] OTHER -> c

ToLowerCase(str) == [i \in 1..Len(str) |-> LowerChar(str[i])]

\* getPostsByTag(tag)
getPostsByTag(posts, tag) ==
  SelectSeq(posts, LAMBDA post :
    \E k \in 1..Len(post.tags) : ToLowerCase(post.tags[k]) = ToLowerCase(tag))

\* The UTF-16 code unit of a letter the tags use.
CodeUnit(c) ==
  CASE c = "N" -> 78 [] c = "R" -> 82 [] c = "n" -> 110 [] c = "r" -> 114

\* The default order of Array.prototype.sort: by code units, a proper prefix first.
RECURSIVE StringLess(_, _)
StringLess(x, y) ==
  IF y = <<>> THEN FALSE
  ELSE IF x = <<>> THEN TRUE
  ELSE IF Head(x) # Head(y) THEN CodeUnit(Head(x)) < CodeUnit(Head(y))
  ELSE StringLess(Tail(x), Tail(y))

\* The tags of the posts in the order a Set first sees them.
RECURSIVE TagsInOrder(_)
TagsInOrder(tagLists) ==
  IF tagLists = <<>> THEN <<>>
  ELSE LET before == TagsInOrder(SubSeq(tagLists, 1, Len(tagLists) - 1))
           t == tagLists[Len(tagLists)]
       IN  IF \E k \in 1..Len(before) : before[k] = t THEN before ELSE Append(before, t)

RECURSIVE Flatten(_)
Flatten(ss) == IF ss = <<>> THEN <<>> ELSE Head(ss) \o Flatten(Tail(ss))

\* Array.from(tags).sort()
RECURSIVE InsertTag(_, _)
InsertTag(sorted, x) ==
  IF sorted = <<>> THEN <<x>>
  ELSE IF StringLess(x, Head(sorted)) THEN <<x>> \o sorted
  ELSE <<Head(sorted)>> \o InsertTag(Tail(sorted), x)

RECURSIVE SortTags(_)
SortTags(a) ==
  IF a = <<>> THEN <<>>
  ELSE InsertTag(SortTags(SubSeq(a, 1, Len(a) - 1)), a[Len(a)])

\* getAllTags()
getAllTags(posts) ==
  SortTags(TagsInOrder(Flatten([i \in 1..Len(posts) |-> posts[i].tags])))

\* ------------------------------------------------ the blog post route (page.tsx)

\* A plausible slip: the list starts at the second post.
generateStaticParamsSkipFirst(posts) ==
  [i \in 1..(Len(posts) - 1) |-> [slug |-> getAllPosts(posts)[i + 1].slug]]

\* generateStaticParams()
generateStaticParams(posts) ==
  [i \in 1..Len(posts) |-> [slug |-> getAllPosts(posts)[i].slug]]

\* generateMetadata({ params }): the Metadata object.
generateMetadata(posts, slug) ==
  LET found == getPostBySlug(posts, slug)
  IN  IF found = <<>>
      THEN [title |-> "Post Not Found"]
      ELSE LET post == found[1]
           IN  [title |-> post.title,
                description |-> post.description,
                keywords |-> post.keywords,
                authors |-> <<[name |-> post.author]>>,
                openGraph |-> [title |-> post.title, description |-> post.description,
                               type |-> "article", publishedTime |-> post.date,
                               authors |-> <<post.author>>,
                               images |-> IF post.image # "" THEN <<post.image>> ELSE <<>>],
                twitter |-> [card |-> "summary_large_image", title |-> post.title,
                             description |-> post.description,
                             images |-> IF post.image # "" THEN <<post.image>> ELSE <<>>]]

\* A plausible slip: the filter is forgotten.
relatedPostsUnfiltered(posts, post) ==
  LET others == getAllPosts(posts)
  IN  [i \in 1..(IF Len(others) < 2 THEN Len(others) ELSE 2) |-> others[i].slug]

\* The "More Articles" list of the page of post: slugs, in order.
relatedPosts(posts, post) ==
  LET others == SelectSeq(getAllPosts(posts), LAMBDA q : q.slug # post.slug)
  IN  [i \in 1..(IF Len(others) < 2 THEN Len(others) ELSE 2) |-> others[i].slug]

\* What BlogPostPage produces. notFound() throws, so nothing after it runs
\* and the framework renders the not-found page.
NotFoundPage(slug) ==
  [slug |-> slug, notFound |-> TRUE, structuredData |-> <<>>, header |-> <<>>,
   article |-> <<>>, related |-> <<>>]

BlogPostPageOf(posts, slug) ==
  LET found == getPostBySlug(posts, slug)
  IN  IF found = <<>>
      THEN NotFoundPage(slug)
      ELSE LET post == found[1]
           IN  [slug |-> slug, notFound |-> FALSE,
                structuredData |-> <<post.slug>>,
                header |-> <<post.title>>,
                article |-> renderContent("page", post.content),
                related |-> relatedPosts(posts, post)]

\* ------------------------------------------------------------- the inputs

\* All strings over the characters S with lo to hi characters.
Strings(S, lo, hi) == UNION { [1..k -> S] : k \in lo..hi }

\* Paragraph text: the escaped characters, the two delimiters, a letter.
InlineChars == {AMP, LT, GT, QUOT, APOS, STAR, TICK, "a"}
InlineContents == Strings(InlineChars, 1, MaxInlineLen)

\* Line structure: the marker characters, white space, a letter.
StructChars == {HASH, DASH, TICK, SP, NL, "x"}
StructContents == Strings(StructChars, 0, MaxStructLen)

\* Whole lines as the blog posts of src/lib/blog-data.ts have them.
LinePool ==
  { <<TICK, TICK, TICK>>,
    <<TICK, TICK, TICK, "j", "s", SP>>,
    <<HASH, SP, "T">>,
    <<HASH, HASH, SP, "T", AMP>>,
    <<HASH, HASH, HASH, SP, "T">>,
    <<DASH, DASH, DASH>>,
    <<>>,
    <<SP, SP>>,
    <<"a", LT, "b">>,
    <<STAR, STAR, "b", GT, STAR, STAR>> }
BlockContents == { JoinLines(ls) : ls \in Strings(LinePool, 1, MaxLines) }

FencePool == { <<TICK, TICK, TICK>>, <<HASH, SP, "T">>, <<"a">> }
FenceContents == { JoinLines(ls) : ls \in Strings(FencePool, 1, MaxFenceLines) }

\* Paragraph text as a row of whole delimiters and escaped characters.
DelimPool == { BoldDelim, CodeDelim, <<LT>> }
DelimContents == { Flatten(ts) : ts \in Strings(DelimPool, 1, MaxDelimTokens) }

Contents ==
  InlineContents \cup StructContents \cup BlockContents \cup FenceContents \cup DelimContents

\* The contents each copy is run on: page.tsx on all of them, part_001 on
\* those that vary the line structure.
ContentsOf(c) ==
  IF c = "page" THEN Contents ELSE StructContents \cup BlockContents \cup FenceContents

\* Posts as blogPosts holds them: slugs that differ by a letter, by case and
\* by length, two posts of one date, tags that differ by case only.
PostPool ==
  { [slug |-> <<"a">>, title |-> "Title a", description |-> "About a", author |-> "DB",
     date |-> <<"2", "0", "2", "4", "-", "1", "2", "-", "0", "1">>, tags |-> <<<<"R">>, <<"N">>>>, image |-> "/a.svg",
     keywords |-> <<"k">>, content |-> <<NL, HASH, SP, "T", NL, NL, "a", LT, "b", NL, SP>>],
    [slug |-> <<"a", "b">>, title |-> "Title ab", description |-> "About ab", author |-> "DB",
     date |-> <<"2", "0", "2", "4", "-", "1", "1", "-", "2", "8">>, tags |-> <<<<"r">>>>, image |-> "",
     keywords |-> <<"k">>, content |-> <<"x">>],
    [slug |-> <<"b">>, title |-> "Title b", description |-> "About b", author |-> "DB",
     date |-> <<"2", "0", "2", "4", "-", "1", "1", "-", "2", "8">>, tags |-> <<<<"N">>, <<"n">>>>, image |-> "",
     keywords |-> <<>>, content |-> <<DASH, DASH, DASH>>],
    [slug |-> <<"A">>, title |-> "Title A", description |-> "About A", author |-> "DB",
     date |-> <<"2", "0", "2", "4", "-", "1", "2", "-", "0", "5">>, tags |-> <<>>, image |-> "",
     keywords |-> <<>>, content |-> <<>>] }

\* The slugs of the seven posts of the blogPosts literal, in its order.
ShippedSlugs ==
  << "building-modern-portfolio-website-nextjs",
     "mastering-react-hooks-frontend-development",
     "nextjs-14-app-router-complete-guide",
     "typescript-best-practices-react-developers",
     "web-performance-optimization-guide",
     "frontend-development-career-guide-2024",
     "react-performance-optimization-techniques" >>

\* blogPosts as the module may define it: posts of distinct slugs in any order.
PostLists ==
  { ps \in Strings(PostPool, 1, MaxPosts) :
      \A i, j \in 1..Len(ps) : i # j => ps[i].slug # ps[j].slug }

\* The slugs a request may carry: those of the posts and some of no post.
RequestSlugs == { q.slug : q \in PostPool } \cup { <<"c">>, <<>>, <<"a", "b", "c">> }

\* The tags a caller may ask for.
RequestTags == { <<"R">>, <<"r">>, <<"n">>, <<"x">> }

\* ------------------------------------------------- renderContent, step by step

\* No call of renderContent is under way.
IdleRender ==
  /\ copy = "page"
  /\ content = <<>>
  /\ lines = <<>>
  /\ index = 0
  /\ elements = <<>>
  /\ currentCodeBlock = <<>>
  /\ inCodeBlock = FALSE
  /\ codeLanguage = <<>>
  /\ pc = "idle"

\* Nothing has been returned yet.
NoReturn == [fn |-> "none", value |-> <<>>]

\* The blog data are not part of the run.
IdleBlog ==
  /\ blogPosts = <<>>
  /\ returned = NoReturn
  /\ metadata = <<>>
  /\ page = <<>>

\* No event has been dispatched.
NoEvent == [type |-> "none", key |-> ""]

\* The Header is not part of the run.
IdleHeader ==
  /\ isOpen = FALSE
  /\ isScrolled = FALSE
  /\ scrollY = 0
  /\ bodyOverflow = ""
  /\ mounted = FALSE
  /\ effectPending = FALSE
  /\ menuPresent = FALSE
  /\ lastEvent = NoEvent

\* The schema module is not part of the run.
IdleSchema ==
  /\ now = 0
  /\ schemaModule = <<>>
  /\ schemaScript = <<>>

\* No motion component is part of the run.
IdleMotion ==
  /\ shouldReduceMotion = FALSE
  /\ rendered = <<>>

\* The empty form: useState({ name: "", email: "", message: "" }).
EmptyForm == [name |-> "", email |-> "", message |-> ""]

\* The Contact section is not part of the run.
IdleContact ==
  /\ formState = EmptyForm
  /\ submitted = FALSE
  /\ timers = {}
  /\ submits = 0
  /\ contactEvent = "none"

\* The locals of the running renderContent, as the callback sees them.
Locals ==
  [elements |-> elements, currentCodeBlock |-> currentCodeBlock,
   inCodeBlock |-> inCodeBlock, codeLanguage |-> codeLanguage]

\* renderContent(content) has been called: the lines are split, the loop has
\* not started.
InitRender ==
  /\ copy \in Copies
  /\ content \in ContentsOf(copy)
  /\ lines = LinesOf(content)
  /\ index = 0
  /\ elements = RenderStart.elements
  /\ currentCodeBlock = RenderStart.currentCodeBlock
  /\ inCodeBlock = RenderStart.inCodeBlock
  /\ codeLanguage = RenderStart.codeLanguage
  /\ pc = "forEach"
  /\ IdleBlog
  /\ IdleHeader
  /\ IdleSchema
  /\ IdleMotion
  /\ IdleContact

\* lines.forEach: the callback on the next line.
ForEachLine ==
  /\ pc = "forEach"
  /\ index < Len(lines)
  /\ LET st == RenderLineOf(copy, Locals, lines[index + 1], index)
     IN  /\ elements' = st.elements
         /\ currentCodeBlock' = st.currentCodeBlock
         /\ inCodeBlock' = st.inCodeBlock
         /\ codeLanguage' = st.codeLanguage
  /\ index' = index + 1
  /\ UNCHANGED <<copy, content, lines, pc>>
  /\ UNCHANGED <<blogVars, headerVars, schemaVars, motionVars, contactVars>>

\* The loop is over: the pending block (page.tsx only) and "return elements".
ReturnElements ==
  /\ pc = "forEach"
  /\ index = Len(lines)
  /\ elements' = RenderPendingOf(copy, Locals).elements
  /\ pc' = "done"
  /\ UNCHANGED <<copy, content, lines, index, currentCodeBlock, inCodeBlock, codeLanguage>>
  /\ UNCHANGED <<blogVars, headerVars, schemaVars, motionVars, contactVars>>

Init == InitRender

Next == ForEachLine \/ ReturnElements

Spec == Init /\ [][Next]_vars

\* ------------------------------------------------- the blog data and the route

\* The module src/lib/blog-data.ts is loaded; nothing has been called.
InitBlog ==
  /\ blogPosts \in PostLists
  /\ returned = NoReturn
  /\ metadata = <<>>
  /\ page = <<>>
  /\ IdleRender
  /\ IdleHeader
  /\ IdleSchema
  /\ IdleMotion
  /\ IdleContact

\* getAllPosts() is called: the array itself is sorted and returned.
CallGetAllPosts ==
  /\ blogPosts' = getAllPosts(blogPosts)
  /\ returned' = [fn |-> "getAllPosts", value |-> blogPosts']
  /\ UNCHANGED <<metadata, page>>
  /\ UNCHANGED <<renderVars, headerVars, schemaVars, motionVars, contactVars>>

\* getPostBySlug(slug) is called.
CallGetPostBySlug ==
  \E slug \in RequestSlugs :
    /\ returned' = [fn |-> "getPostBySlug", value |-> getPostBySlug(blogPosts, slug)]
    /\ UNCHANGED <<blogPosts, metadata, page>>
    /\ UNCHANGED <<renderVars, headerVars, schemaVars, motionVars, contactVars>>

\* getPostsByTag(tag) is called.
CallGetPostsByTag ==
  \E tag \in RequestTags :
    /\ returned' = [fn |-> "getPostsByTag", value |-> getPostsByTag(blogPosts, tag)]
    /\ UNCHANGED <<blogPosts, metadata, page>>
    /\ UNCHANGED <<renderVars, headerVars, schemaVars, motionVars, contactVars>>

\* getAllTags() is called.
CallGetAllTags ==
  /\ returned' = [fn |-> "getAllTags", value |-> getAllTags(blogPosts)]
  /\ UNCHANGED <<blogPosts, metadata, page>>
  /\ UNCHANGED <<renderVars, headerVars, schemaVars, motionVars, contactVars>>

\* generateStaticParams() is called; it calls getAllPosts().
CallGenerateStaticParams ==
  /\ returned' = [fn |-> "generateStaticParams", value |-> generateStaticParams(blogPosts)]
  /\ blogPosts' = getAllPosts(blogPosts)
  /\ UNCHANGED <<metadata, page>>
  /\ UNCHANGED <<renderVars, headerVars, schemaVars, motionVars, contactVars>>

\* generateMetadata is called for a request of /blog/slug.
CallGenerateMetadata ==
  \E slug \in RequestSlugs :
    /\ metadata' = <<[slug |-> slug, value |-> generateMetadata(blogPosts, slug)]>>
    /\ UNCHANGED <<blogPosts, returned, page>>
    /\ UNCHANGED <<renderVars, headerVars, schemaVars, motionVars, contactVars>>

\* BlogPostPage is rendered for a request of /blog/slug; when the post is
\* found, the related posts come from a call of getAllPosts().
RenderBlogPostPage ==
  \E slug \in RequestSlugs :
    /\ page' = <<BlogPostPageOf(blogPosts, slug)>>
    /\ blogPosts' = IF getPostBySlug(blogPosts, slug) = <<>> THEN blogPosts
                    ELSE getAllPosts(blogPosts)
    /\ UNCHANGED <<returned, metadata>>
    /\ UNCHANGED <<renderVars, headerVars, schemaVars, motionVars, contactVars>>

NextBlog ==
  \/ CallGetAllPosts
  \/ CallGetPostBySlug
  \/ CallGetPostsByTag
  \/ CallGetAllTags
  \/ CallGenerateStaticParams
  \/ CallGenerateMetadata
  \/ RenderBlogPostPage

SpecBlog == InitBlog /\ [][NextBlog]_vars

\* ------------------------------------------------- src/lib/structured-data.ts

\* A property of a schema object: its key (nested keys joined by a dot), its
\* value as a string, and whether the value is a string or a number.
Field(key, str) == [key |-> key, str |-> str, quoted |-> TRUE]
Number(key, n) == [key |-> key, str |-> Decimal(n), quoted |-> FALSE]

SchemaOrg == <<"https://schema.org">>

\* A plausible slip: the split is forgotten and the time of day stays in.
TodayWithTime(h) == ToISOString(h)

\* new Date().toISOString().split("T")[0]
Today(h) == SplitFirst(ToISOString(h), "T")

personSchema(in) ==
  << Field("@context", SchemaOrg), Field("@type", <<"Person">>),
     Field("@id", in.site.url \o <<"/#person">>), Field("name", in.site.name),
     Field("url", in.site.url), Field("description", in.site.description) >>

websiteSchema(in) ==
  << Field("@context", SchemaOrg), Field("@type", <<"WebSite">>),
     Field("@id", in.site.url \o <<"/#website">>), Field("url", in.site.url),
     Field("name", in.site.title), Field("description", in.site.description),
     Field("inLanguage", <<"en-US">>) >>

webPageSchema(in, h) ==
  << Field("@context", SchemaOrg), Field("@type", <<"WebPage">>),
     Field("@id", in.site.url \o <<"/#webpage">>), Field("url", in.site.url),
     Field("name", in.site.title), Field("description", in.site.description),
     Field("isPartOf.@id", in.site.url \o <<"/#website">>),
     Field("about.@id", in.site.url \o <<"/#person">>),
     Field("primaryImageOfPage.url", in.site.url \o <<"/og-image.png">>),
     Field("datePublished", <<"2024-01-01">>),
     Field("dateModified", Today(h)),
     Field("inLanguage", <<"en-US">>) >>

profilePageSchema(in, h) ==
  << Field("@context", SchemaOrg), Field("@type", <<"ProfilePage">>),
     Field("@id", in.site.url \o <<"/#profilepage">>), Field("url", in.site.url),
     Field("name", in.site.name \o <<" - Portfolio">>),
     Field("mainEntity.@id", in.site.url \o <<"/#person">>),
     Field("dateCreated", <<"2024-01-01">>),
     Field("dateModified", Today(h)) >>

projectsListSchema(in) ==
  << Field("@context", SchemaOrg), Field("@type", <<"ItemList">>),
     Field("@id", in.site.url \o <<"/#projects">>), Field("name", <<"Featured Projects">>),
     Number("numberOfItems", Len(in.projects)) >>
  \o Flatten([i \in 1..Len(in.projects) |->
       << Number("itemListElement.position", i),
          Field("itemListElement.item.name", in.projects[i].name),
          Field("itemListElement.item.image", in.site.url \o in.projects[i].image) >>])

faqSchema(in) ==
  << Field("@context", SchemaOrg), Field("@type", <<"FAQPage">>),
     Field("@id", in.site.url \o <<"/#faq">>) >>
  \o Flatten([i \in 1..Len(in.faq) |->
       << Field("mainEntity.name", in.faq[i].question),
          Field("mainEntity.acceptedAnswer.text", in.faq[i].answer) >>])

breadcrumbSchema(in) ==
  << Field("@context", SchemaOrg), Field("@type", <<"BreadcrumbList">>),
     Number("itemListElement.position", 1), Field("itemListElement.name", <<"Home">>),
     Field("itemListElement.item", in.site.url) >>

serviceSchema(in) ==
  << Field("@context", SchemaOrg), Field("@type", <<"Service">>),
     Field("@id", in.site.url \o <<"/#service">>), Field("provider.@id", in.site.url \o <<"/#person">>) >>

\* The module's constants as they are evaluated when it is loaded at hour h.
combinedSchema(in, h) ==
  << personSchema(in), websiteSchema(in), webPageSchema(in, h), profilePageSchema(in, h),
     projectsListSchema(in), faqSchema(in), breadcrumbSchema(in), serviceSchema(in) >>

\* JSON.stringify of a string: quoted, with quotes and backslashes escaped.
JsonString(str) ==
  <<QUOT>> \o Flatten([i \in 1..Len(str) |->
              IF str[i] \in {QUOT, "\\"} THEN <<"\\", str[i]>> ELSE <<str[i]>>]) \o <<QUOT>>

JsonField(f) == JsonString(<<f.key>>) \o <<":">> \o (IF f.quoted THEN JsonString(f.str) ELSE f.str)

\* The members xs, already stringified, between open and close with commas.
JsonList(open, xs, close) ==
  <<open>> \o Flatten([i \in 1..Len(xs) |-> (IF i > 1 THEN <<",">> ELSE <<>>) \o xs[i]]) \o <<close>>

JsonObject(obj) == JsonList("{", [i \in 1..Len(obj) |-> JsonField(obj[i])], "}")

\* generateSchemaScript(): JSON.stringify(combinedSchema)
generateSchemaScript(schemas) ==
  JsonList("[", [i \in 1..Len(schemas) |-> JsonObject(schemas[i])], "]")

\* siteConfig, projectsData and faqData as the module may import them.
SchemaInputs ==
  [site : { [url |-> <<"https://www.debmalya.in/">>, name |-> <<"Debmalya Biswas">>,
             title |-> <<"Debmalya Biswas | Engineer">>, description |-> <<"Frontend ", QUOT, "SDE", QUOT>>],
            [url |-> <<"https://example.dev">>, name |-> <<"D. B.">>,
             title |-> <<"D. B.">>, description |-> <<"Engineer">>] },
   projects : { <<>>,
                <<[name |-> <<"Portfolio">>, image |-> <<"/p.png">>],
                  [name |-> <<"Shop">>, image |-> <<"/s.png">>]>> },
   faq : { <<[question |-> <<"Who?">>, answer |-> <<"Me.">>]>> }]

\* The processes that load the module (two builds, or two servers).
Processes == {1, 2}

\* The clock starts on 2026-11-05T00:00Z.
StartHour == DaysFromCivil(2026, 11, 5) * 24

\* No process has loaded the module yet.
InitSchema ==
  /\ now = StartHour
  /\ schemaModule = [p \in Processes |-> <<>>]
  /\ schemaScript = [p \in Processes |-> <<>>]
  /\ IdleRender
  /\ IdleBlog
  /\ IdleHeader
  /\ IdleMotion
  /\ IdleContact

\* Time passes.
Tick ==
  /\ now < StartHour + MaxTicks * TickHours
  /\ now' = now + TickHours
  /\ UNCHANGED <<schemaModule, schemaScript>>
  /\ UNCHANGED <<renderVars, blogVars, headerVars, motionVars, contactVars>>

\* Process p loads the module: its constants are evaluated, once, now.
EvaluateModule(p) ==
  /\ schemaModule[p] = <<>>
  /\ \E in \in SchemaInputs :
       schemaModule' = [schemaModule EXCEPT ![p] =
                          <<[inputs |-> in, at |-> now, combinedSchema |-> combinedSchema(in, now)]>>]
  /\ UNCHANGED <<now, schemaScript>>
  /\ UNCHANGED <<renderVars, blogVars, headerVars, motionVars, contactVars>>

\* The layout of process p calls generateSchemaScript().
CallGenerateSchemaScript(p) ==
  /\ schemaModule[p] # <<>>
  /\ schemaScript' = [schemaScript EXCEPT ![p] =
                        <<generateSchemaScript(schemaModule[p][1].combinedSchema)>>]
  /\ UNCHANGED <<now, schemaModule>>
  /\ UNCHANGED <<renderVars, blogVars, headerVars, motionVars, contactVars>>

NextSchema ==
  \/ Tick
  \/ \E p \in Processes : EvaluateModule(p)
  \/ \E p \in Processes : CallGenerateSchemaScript(p)

SpecSchema == InitSchema /\ [][NextSchema]_vars

\* ------------------------------------------------ Header (src/unnamed/part_002)

\* The scroll handler sets isScrolled when window.scrollY is above this.
ScrollThreshold == 50

\* Scroll positions around the threshold.
ScrollPositions == {0, 49, 50, 51, 400}

\* Keys a keydown event may carry.
Keys == {"Escape", "Enter", "Tab"}

\* The Header is mounted: both states are false, the listeners are attached
\* and the [isOpen] effect has run once.
InitHeader ==
  /\ isOpen = FALSE
  /\ isScrolled = FALSE
  /\ scrollY = 0
  /\ bodyOverflow = ""
  /\ mounted = TRUE
  /\ effectPending = FALSE
  /\ menuPresent = FALSE
  /\ lastEvent = NoEvent
  /\ IdleRender
  /\ IdleBlog
  /\ IdleSchema
  /\ IdleMotion
  /\ IdleContact

\* A plausible slip: the button always opens the menu.
ClickMenuButtonOpens ==
  /\ mounted
  /\ isOpen' = TRUE
  /\ effectPending' = (effectPending \/ ~isOpen)
  /\ menuPresent' = TRUE
  /\ lastEvent' = [type |-> "click-button", key |-> ""]
  /\ UNCHANGED <<isScrolled, scrollY, bodyOverflow, mounted>>
  /\ UNCHANGED <<renderVars, blogVars, schemaVars, motionVars, contactVars>>

\* The menu button's onClick: setIsOpen(!isOpen). The menu enters the
\* document when it opens and stays there while it animates out.
ClickMenuButton ==
  /\ mounted
  /\ isOpen' = ~isOpen
  /\ effectPending' = TRUE
  /\ menuPresent' = (menuPresent \/ ~isOpen)
  /\ lastEvent' = [type |-> "click-button", key |-> ""]
  /\ UNCHANGED <<isScrolled, scrollY, bodyOverflow, mounted>>
  /\ UNCHANGED <<renderVars, blogVars, schemaVars, motionVars, contactVars>>

\* handleEscape on a keydown of the window: Escape closes, other keys do nothing.
KeyDown(key) ==
  /\ mounted
  /\ isOpen' = (IF key = "Escape" THEN FALSE ELSE isOpen)
  /\ effectPending' = (effectPending \/ (key = "Escape" /\ isOpen))
  /\ lastEvent' = [type |-> "keydown", key |-> key]
  /\ UNCHANGED <<isScrolled, scrollY, bodyOverflow, mounted, menuPresent>>
  /\ UNCHANGED <<renderVars, blogVars, schemaVars, motionVars, contactVars>>

\* A mobile navigation link's onClick: setIsOpen(false). The links exist
\* while the menu is in the document.
ClickMobileLink ==
  /\ mounted
  /\ menuPresent
  /\ isOpen' = FALSE
  /\ effectPending' = (effectPending \/ isOpen)
  /\ lastEvent' = [type |-> "click-link", key |-> ""]
  /\ UNCHANGED <<isScrolled, scrollY, bodyOverflow, mounted, menuPresent>>
  /\ UNCHANGED <<renderVars, blogVars, schemaVars, motionVars, contactVars>>

\* handleScroll on a scroll of the window to position y.
Scroll(y) ==
  /\ mounted
  /\ scrollY' = y
  /\ isScrolled' = (y > ScrollThreshold)
  /\ lastEvent' = [type |-> "scroll", key |-> ""]
  /\ UNCHANGED <<isOpen, bodyOverflow, mounted, effectPending, menuPresent>>
  /\ UNCHANGED <<renderVars, blogVars, schemaVars, motionVars, contactVars>>

\* A plausible slip: the effect has no else branch and no cleanup, so the
\* body is locked when the menu opens and never released.
RunOverflowEffectLockOnly ==
  /\ mounted
  /\ effectPending
  /\ bodyOverflow' = (IF isOpen THEN "hidden" ELSE bodyOverflow)
  /\ effectPending' = FALSE
  /\ UNCHANGED <<isOpen, isScrolled, scrollY, mounted, menuPresent, lastEvent>>
  /\ UNCHANGED <<renderVars, blogVars, schemaVars, motionVars, contactVars>>

\* The [isOpen] effect after a render that changed isOpen: the cleanup of
\* the previous run, then the body.
RunOverflowEffect ==
  /\ mounted
  /\ effectPending
  /\ bodyOverflow' = (IF isOpen THEN "hidden" ELSE "")
  /\ effectPending' = FALSE
  /\ UNCHANGED <<isOpen, isScrolled, scrollY, mounted, menuPresent, lastEvent>>
  /\ UNCHANGED <<renderVars, blogVars, schemaVars, motionVars, contactVars>>

\* AnimatePresence removes the closed menu when its exit animation is over.
ExitComplete ==
  /\ mounted
  /\ menuPresent
  /\ ~isOpen
  /\ menuPresent' = FALSE
  /\ UNCHANGED <<isOpen, isScrolled, scrollY, bodyOverflow, mounted, effectPending, lastEvent>>
  /\ UNCHANGED <<renderVars, blogVars, schemaVars, motionVars, contactVars>>

\* The Header unmounts: the cleanups run and the listeners are removed.
Unmount ==
  /\ mounted
  /\ mounted' = FALSE
  /\ bodyOverflow' = ""
  /\ effectPending' = FALSE
  /\ menuPresent' = FALSE
  /\ UNCHANGED <<isOpen, isScrolled, scrollY, lastEvent>>
  /\ UNCHANGED <<renderVars, blogVars, schemaVars, motionVars, contactVars>>

NextHeader ==
  \/ ClickMenuButton
  \/ \E key \in Keys : KeyDown(key)
  \/ ClickMobileLink
  \/ \E y \in ScrollPositions : Scroll(y)
  \/ RunOverflowEffect
  \/ ExitComplete
  \/ Unmount

SpecHeader == InitHeader /\ [][NextHeader]_vars

\* ------------------------------------- src/components/ui/motion-wrapper.tsx

\* An optional prop or attribute is a sequence: empty when it is not given,
\* of one value when it is.
Absent == <<>>

\* The element a component returns: its tag, whether it is a framer-motion
\* element, className, children, the animation props and the set of the
\* other props applied to it.
MotionElement(tag, animated, className, children, anim, attrs) ==
  [tag |-> tag, animated |-> animated, className |-> className, children |-> children,
   variants |-> anim.variants, initial |-> anim.initial, animate |-> anim.animate,
   exit |-> anim.exit, whileInView |-> anim.whileInView, viewport |-> anim.viewport,
   transition |-> anim.transition, attrs |-> attrs]

\* No animation prop at all.
NoAnimation ==
  [variants |-> Absent, initial |-> Absent, animate |-> Absent, exit |-> Absent,
   whileInView |-> Absent, viewport |-> Absent, transition |-> Absent]

\* The static element of the reduced-motion branches: className and children only.
StaticElement(tag, p) == MotionElement(tag, FALSE, p.className, p.children, NoAnimation, {})

\* delay = 0 when the caller gives none.
DelayOf(p) == IF p.delay = Absent THEN 0 ELSE p.delay[1]

\* The variants StaggerContainer and StaggerItem write themselves.
StaggerContainerVariants == "stagger"
StaggerItemVariants == "fadeUp"

\* What "...props" holds in StaggerContainer and StaggerItem, which do not
\* destructure variants and delay: the caller's other props and these two
\* when they are given.
RestWithVariants(p) ==
  p.rest \cup (IF p.variants = Absent THEN {} ELSE {"variants"})
         \cup (IF p.delay = Absent THEN {} ELSE {"delay"})

\* A plausible slip: the static branch of MotionSection is copied from
\* MotionWrapper with its div.
MotionSectionDiv(p, reduce) ==
  IF reduce THEN StaticElement("div", p)
  ELSE MotionElement("section", TRUE, p.className, p.children,
         [NoAnimation EXCEPT !.variants = p.variants, !.initial = <<"initial">>,
                             !.whileInView = <<"animate">>, !.viewport = <<"once">>,
                             !.transition = <<DelayOf(p)>>],
         p.rest)

\* MotionWrapper(props) when useReducedMotion() returns reduce.
MotionWrapper(p, reduce) ==
  IF reduce THEN StaticElement("div", p)
  ELSE MotionElement("div", TRUE, p.className, p.children,
         [NoAnimation EXCEPT !.variants = p.variants, !.initial = <<"initial">>,
                             !.animate = <<"animate">>, !.exit = <<"exit">>,
                             !.transition = <<DelayOf(p)>>],
         p.rest)

\* MotionSection(props)
MotionSection(p, reduce) ==
  IF reduce THEN StaticElement("section", p)
  ELSE MotionElement("section", TRUE, p.className, p.children,
         [NoAnimation EXCEPT !.variants = p.variants, !.initial = <<"initial">>,
                             !.whileInView = <<"animate">>, !.viewport = <<"once">>,
                             !.transition = <<DelayOf(p)>>],
         p.rest)

\* StaggerContainer(props): a variants prop of the caller is spread after the
\* component's own and replaces it.
StaggerContainer(p, reduce) ==
  IF reduce THEN StaticElement("div", p)
  ELSE MotionElement("div", TRUE, p.className, p.children,
         [NoAnimation EXCEPT !.variants = IF p.variants = Absent
                                          THEN <<StaggerContainerVariants>> ELSE p.variants,
                             !.initial = <<"initial">>,
                             !.whileInView = <<"animate">>, !.viewport = <<"once">>],
         RestWithVariants(p) \ {"variants"})

\* StaggerItem(props)
StaggerItem(p, reduce) ==
  IF reduce THEN StaticElement("div", p)
  ELSE MotionElement("div", TRUE, p.className, p.children,
         [NoAnimation EXCEPT !.variants = IF p.variants = Absent
                                          THEN <<StaggerItemVariants>> ELSE p.variants],
         RestWithVariants(p) \ {"variants"})

MotionComponents == {"MotionWrapper", "MotionSection", "StaggerContainer", "StaggerItem"}

\* The element component c returns for props p.
RenderMotion(c, p, reduce) ==
  CASE c = "MotionWrapper" -> MotionWrapper(p, reduce)
    [] c = "MotionSection" -> MotionSection(p, reduce)
    [] c = "StaggerContainer" -> StaggerContainer(p, reduce)
    [] c = "StaggerItem" -> StaggerItem(p, reduce)

\* The HTML props a caller may pass besides the declared ones.
ExtraProps == {"id", "aria-label", "onClick"}

\* The props the callers pass.
MotionProps ==
  [children : {"text", "card"},
   className : {Absent, <<"space-y-4">>},
   variants : {Absent, <<"fadeIn">>},
   delay : {Absent, <<2>>},
   rest : SUBSET ExtraProps]

\* The page is loaded by a user who prefers reduced motion, or does not;
\* nothing is rendered yet.
InitMotion ==
  /\ shouldReduceMotion \in BOOLEAN
  /\ rendered = <<>>
  /\ IdleRender
  /\ IdleBlog
  /\ IdleHeader
  /\ IdleSchema
  /\ IdleContact

\* Component c is rendered with props p.
Render(c, p) ==
  /\ rendered' = <<[component |-> c, props |-> p,
                    element |-> RenderMotion(c, p, shouldReduceMotion)]>>
  /\ UNCHANGED shouldReduceMotion
  /\ UNCHANGED <<renderVars, blogVars, headerVars, schemaVars, contactVars>>

RenderMotionWrapper == \E p \in MotionProps : Render("MotionWrapper", p)

RenderMotionSection == \E p \in MotionProps : Render("MotionSection", p)

RenderStaggerContainer == \E p \in MotionProps : Render("StaggerContainer", p)

RenderStaggerItem == \E p \in MotionProps : Render("StaggerItem", p)

NextMotion ==
  \/ RenderMotionWrapper
  \/ RenderMotionSection
  \/ RenderStaggerContainer
  \/ RenderStaggerItem

SpecMotion == InitMotion /\ [][NextMotion]_vars

\* ------------------------------------- src/components/sections/contact.tsx

\* The delay of the reset timer, in milliseconds.
ResetDelay == 3000

\* Time is watched in thirds of the delay.
TimeStep == ResetDelay \div 3

\* What the visitor may type into the three fields.
Names == {"", "Ada"}
Emails == {"", "ada", "ada@x.dev"}
Messages == {"", "Hi"}

\* The values an input of type email accepts.
ValidEmails == {"ada@x.dev"}

\* The browser's validation: the three fields are required, and the email
\* field is of type email. An invalid form dispatches no submit event.
FormValid ==
  /\ formState.name # ""
  /\ formState.email \in ValidEmails
  /\ formState.message # ""

\* A plausible slip: the button is rendered beside the confirmation.
SubmitButtonAlwaysRendered == TRUE

\* {submitted ? <confirmation> : <submit button>}
SubmitButtonRendered == ~submitted

\* handleSubmit: setSubmitted(true) and a timer of ResetDelay milliseconds.
handleSubmit(ev) ==
  /\ submitted' = TRUE
  /\ submits' = submits + 1
  /\ timers' = timers \cup {[submit |-> submits + 1, left |-> ResetDelay]}
  /\ contactEvent' = ev
  /\ UNCHANGED formState

\* The Contact section is mounted: the form is empty, nothing was submitted.
InitContact ==
  /\ formState = EmptyForm
  /\ submitted = FALSE
  /\ timers = {}
  /\ submits = 0
  /\ contactEvent = "none"
  /\ IdleRender
  /\ IdleBlog
  /\ IdleHeader
  /\ IdleSchema
  /\ IdleMotion

\* onChange of the three fields: setFormState({ ...formState, field: value }).
ChangeName ==
  /\ \E v \in Names : formState' = [formState EXCEPT !.name = v]
  /\ contactEvent' = "change"
  /\ UNCHANGED <<submitted, timers, submits>>
  /\ UNCHANGED <<renderVars, blogVars, headerVars, schemaVars, motionVars>>

ChangeEmail ==
  /\ \E v \in Emails : formState' = [formState EXCEPT !.email = v]
  /\ contactEvent' = "change"
  /\ UNCHANGED <<submitted, timers, submits>>
  /\ UNCHANGED <<renderVars, blogVars, headerVars, schemaVars, motionVars>>

ChangeMessage ==
  /\ \E v \in Messages : formState' = [formState EXCEPT !.message = v]
  /\ contactEvent' = "change"
  /\ UNCHANGED <<submitted, timers, submits>>
  /\ UNCHANGED <<renderVars, blogVars, headerVars, schemaVars, motionVars>>

\* A click on the submit button, which is there to be clicked only while it
\* is rendered: the valid form dispatches submit.
ClickSubmitButton ==
  /\ SubmitButtonRendered
  /\ FormValid
  /\ submits < MaxSubmits
  /\ handleSubmit("click")
  /\ UNCHANGED <<renderVars, blogVars, headerVars, schemaVars, motionVars>>

\* Enter in the name or the email field. The form is submitted through its
\* submit button; without one, a form of more than one text field is not
\* submitted at all.
PressEnter ==
  /\ submits < MaxSubmits
  /\ IF SubmitButtonRendered /\ FormValid
     THEN handleSubmit("enter")
     ELSE /\ contactEvent' = "enter"
          /\ UNCHANGED <<formState, submitted, timers, submits>>
  /\ UNCHANGED <<renderVars, blogVars, headerVars, schemaVars, motionVars>>

\* Time passes while no timer is due.
TimePasses ==
  /\ timers # {}
  /\ \A t \in timers : t.left > 0
  /\ timers' = { [t EXCEPT !.left = IF @ > TimeStep THEN @ - TimeStep ELSE 0] : t \in timers }
  /\ contactEvent' = "time"
  /\ UNCHANGED <<formState, submitted, submits>>
  /\ UNCHANGED <<renderVars, blogVars, headerVars, schemaVars, motionVars>>

\* The callback of a timer that is due: the form is emptied and submitted
\* is false again.
TimerFires ==
  /\ \E t \in timers :
       /\ t.left = 0
       /\ timers' = timers \ {t}
  /\ formState' = EmptyForm
  /\ submitted' = FALSE
  /\ contactEvent' = "timeout"
  /\ UNCHANGED submits
  /\ UNCHANGED <<renderVars, blogVars, headerVars, schemaVars, motionVars>>

NextContact ==
  \/ ChangeName
  \/ ChangeEmail
  \/ ChangeMessage
  \/ ClickSubmitButton
  \/ PressEnter
  \/ TimePasses
  \/ TimerFires

SpecContact == InitContact /\ [][NextContact]_vars

\* ---------------------------------------------------- what the claims speak of

\* l begins with the characters p.
HasPrefix(l, p) == Len(l) >= Len(p) /\ \A j \in 1..Len(p) : l[j] = p[j]

\* Line i (counted from 1) of the trimmed content is a fence line.
IsFenceLine(i) == HasPrefix(lines[i], <<TICK, TICK, TICK>>)

\* The fence lines among the first n lines.
FenceLines(n) == { i \in 1..n : IsFenceLine(i) }

\* The k-th fence line.
NthFence(k) == CHOOSE i \in FenceLines(Len(lines)) : Cardinality(FenceLines(i)) = k

\* Line i is no fence and follows an even number of fences: outside any block.
OutsideBlock(i) == ~IsFenceLine(i) /\ Cardinality(FenceLines(i)) % 2 = 0

\* The positions in elements of the elements keyed by line i.
ElementsOf(i) == { k \in 1..Len(elements) : elements[k].idx = i - 1 }

\* The positions in elements of the code blocks.
CodeBlocks == { k \in 1..Len(elements) : elements[k].kind = "pre" }

\* The kinds of a sequence of elements.
Kinds(es) == [k \in 1..Len(es) |-> es[k].kind]

\* The number of places where p occurs in s.
CountOcc(s, p) == Cardinality({ i \in 1..Len(s) : OccursAt(s, p, i) })

\* h without the four tags the renderer inserts.
FixedTags == {StrongOpen, StrongClose, CodeOpen, CodeClose}

RECURSIVE StripTagsFrom(_, _)
StripTagsFrom(h, i) ==
  IF i > Len(h) THEN <<>>
  ELSE IF \E t \in FixedTags : OccursAt(h, t, i)
  THEN StripTagsFrom(h, i + Len(CHOOSE t \in FixedTags : OccursAt(h, t, i)))
  ELSE <<h[i]>> \o StripTagsFrom(h, i + 1)

StripTags(h) == StripTagsFrom(h, 1)

\* The tests of the text branch that line l passes, and the outcome they name.
LineTests(l) ==
  { t \in {"h1", "h2", "h3", "Separator", "blank"} :
      \/ t = "h1" /\ HasPrefix(l, <<HASH, SP>>)
      \/ t = "h2" /\ HasPrefix(l, <<HASH, HASH, SP>>)
      \/ t = "h3" /\ HasPrefix(l, <<HASH, HASH, HASH, SP>>)
      \/ t = "Separator" /\ HasPrefix(l, <<DASH, DASH, DASH>>)
      \/ t = "blank" /\ \A j \in 1..Len(l) : l[j] \in WhiteSpace }

\* ------------------------------------------------------------------ C1

\* C1: in page.tsx every paragraph's __html, with the renderer's four fixed
\* tags taken out, holds no < > " or ' at all; each & < > " ' of the line is
\* there as its entity, once per occurrence, and every & of the string
\* begins one of these entities.
C1_ParagraphHtmlEscaped ==
  \A k \in 1..Len(elements) :
    (copy = "page" /\ elements[k].kind = "p") =>
      LET line == lines[elements[k].idx + 1]
          text == StripTags(elements[k].text)
      IN  /\ \A i \in 1..Len(text) : text[i] \notin {LT, GT, QUOT, APOS}
          /\ CountOcc(text, AmpEntity) = CountOcc(line, <<AMP>>)
          /\ CountOcc(text, LtEntity) = CountOcc(line, <<LT>>)
          /\ CountOcc(text, GtEntity) = CountOcc(line, <<GT>>)
          /\ CountOcc(text, QuotEntity) = CountOcc(line, <<QUOT>>)
          /\ CountOcc(text, AposEntity) = CountOcc(line, <<APOS>>)
          /\ CountOcc(text, <<AMP>>) =
               CountOcc(line, <<AMP>>) + CountOcc(line, <<LT>>) + CountOcc(line, <<GT>>)
                 + CountOcc(line, <<QUOT>>) + CountOcc(line, <<APOS>>)

\* A paragraph of page.tsx whose line holds & and <, inside an inserted <code>.
C1_Witness ==
  /\ pc = "done"
  /\ copy = "page"
  /\ \E k \in 1..Len(elements) :
       /\ elements[k].kind = "p"
       /\ CountOcc(lines[elements[k].idx + 1], <<LT>>) > 0
       /\ CountOcc(lines[elements[k].idx + 1], <<AMP>>) > 0
       /\ CountOcc(elements[k].text, CodeOpen) = 1
       /\ CountOcc(elements[k].text, CodeClose) = 1

\* ------------------------------------------------------------------ C4

\* C4: in page.tsx every processed line outside a code block passes at most
\* one of the five tests (h1, h2, h3, separator, blank) and has the outcome
\* of the test it passes: one element of that kind and no other, no element
\* for a blank line, and one paragraph when it passes none.
C4_OneOutcomePerLine ==
  \A i \in 1..index :
    (copy = "page" /\ OutsideBlock(i)) =>
      LET tests == LineTests(lines[i])
      IN  /\ Cardinality(tests) <= 1
          /\ IF tests = {"blank"} THEN ElementsOf(i) = {}
             ELSE \E k \in 1..Len(elements) :
                    /\ ElementsOf(i) = {k}
                    /\ elements[k].kind = (IF tests = {} THEN "p" ELSE CHOOSE t \in tests : TRUE)

\* A finished run of page.tsx with a heading, a paragraph and a blank line,
\* all outside code blocks.
C4_Witness ==
  /\ pc = "done"
  /\ copy = "page"
  /\ \E i, j, m \in 1..Len(lines) :
       /\ OutsideBlock(i) /\ LineTests(lines[i]) = {"h2"}
       /\ OutsideBlock(j) /\ LineTests(lines[j]) = {"blank"}
       /\ OutsideBlock(m) /\ LineTests(lines[m]) = {}

\* ------------------------------------------------------------------ C7

\* C7: in part_001 no < or > of a paragraph line reaches __html unescaped:
\* with the four fixed tags taken out, the string holds no < and no >.
C7_Part001ParagraphEscaped ==
  \A k \in 1..Len(elements) :
    (copy = "part_001" /\ elements[k].kind = "p") =>
      LET text == StripTags(elements[k].text)
      IN  \A i \in 1..Len(text) : text[i] \notin {LT, GT}

\* ------------------------------------------------------------------ C8

\* Every opening fence has a closing fence.
FencesClosed == Cardinality(FenceLines(Len(lines))) % 2 = 0

OtherCopy == IF copy = "page" THEN "part_001" ELSE "page"

\* C8: when every opening fence has a closing fence, the copy that ran and
\* the other copy return the same sequence of element kinds for the content.
C8_SameKinds ==
  (pc = "done" /\ FencesClosed) =>
    Kinds(elements) = Kinds(renderContent(OtherCopy, content))

\* part_001 has returned a code block, a heading and a paragraph for a
\* content whose fences are all closed.
C8_Witness ==
  /\ pc = "done"
  /\ copy = "part_001"
  /\ FencesClosed
  /\ {"pre", "h1", "p"} \subseteq { elements[k].kind : k \in 1..Len(elements) }

\* ------------------------------------------------------------------ C9

\* The code blocks emitted by a closing fence, in order.
ClosedBlocks == SelectSeq(elements, LAMBDA e : e.kind = "pre" /\ e.pre = "code")

\* C9: in page.tsx, after any number of lines, a block is open exactly when
\* an odd number of fence lines has been read; the k-th code block emitted
\* by a fence is keyed by the 2k-th fence line and holds exactly the lines
\* strictly between fence 2k-1 and fence 2k, joined by newlines; and no line
\* between the two fences of a block has an element of its own.
C9_CodeBlocksVerbatim ==
  copy = "page" =>
    /\ pc = "forEach" => (inCodeBlock <=> Cardinality(FenceLines(index)) % 2 = 1)
    /\ Len(ClosedBlocks) = Cardinality(FenceLines(index)) \div 2
    /\ \A k \in 1..Len(ClosedBlocks) :
         LET open == NthFence(2 * k - 1)
             close == NthFence(2 * k)
         IN  /\ ClosedBlocks[k].idx = close - 1
             /\ ClosedBlocks[k].text = JoinLines(SubSeq(lines, open + 1, close - 1))
             /\ \A i \in (open + 1)..(close - 1) : ElementsOf(i) = {}

\* A finished run of page.tsx with two closed code blocks, the first of two
\* lines of which one looks like a heading.
C9_Witness ==
  /\ pc = "done"
  /\ copy = "page"
  /\ Len(ClosedBlocks) = 2
  /\ NthFence(2) - NthFence(1) = 3
  /\ \E i \in (NthFence(1) + 1)..(NthFence(2) - 1) : LineTests(lines[i]) = {"h1"}
  /\ CountOcc(ClosedBlocks[1].text, <<NL>>) = 1

\* ------------------------------------------------------------------ C10

\* The number of fence lines of the content, and the last of them.
NumFences == Cardinality(FenceLines(Len(lines)))

\* C10: page.tsx returns floor(F/2) code blocks for F fence lines, plus one
\* when F is odd and a line follows the last fence; that extra block is the
\* last element and holds every line after the last fence.
C10_PendingBlockRendered ==
  (pc = "done" /\ copy = "page") =>
    LET unclosed == NumFences % 2 = 1 /\ NthFence(NumFences) < Len(lines)
    IN  /\ Cardinality(CodeBlocks) = (NumFences \div 2) + (IF unclosed THEN 1 ELSE 0)
        /\ unclosed =>
             /\ elements[Len(elements)].kind = "pre"
             /\ elements[Len(elements)].text =
                  JoinLines(SubSeq(lines, NthFence(NumFences) + 1, Len(lines)))

\* A finished run of page.tsx: three fences, two lines after the last one.
C10_Witness ==
  /\ pc = "done"
  /\ copy = "page"
  /\ NumFences = 3
  /\ NthFence(3) = Len(lines) - 2
  /\ Cardinality(CodeBlocks) = 2

\* ------------------------------------------------------------------ C2

\* Some entry of blogPosts has exactly this slug.
SlugExists(slug) == \E i \in 1..Len(blogPosts) : blogPosts[i].slug = slug

\* C2: the page rendered for a slug is the not-found page exactly when no
\* entry of blogPosts has that slug; the not-found page has no header, no
\* article, no structured data and no related posts, a found page has its
\* header and structured data; and the metadata generated for a slug of no
\* post are the title "Post Not Found" and nothing else.
C2_NotFoundIffNoSuchSlug ==
  /\ \A k \in 1..Len(page) :
       /\ page[k].notFound <=> ~SlugExists(page[k].slug)
       /\ page[k].notFound =>
            /\ page[k].header = <<>>
            /\ page[k].article = <<>>
            /\ page[k].structuredData = <<>>
            /\ page[k].related = <<>>
       /\ ~page[k].notFound => (page[k].header # <<>> /\ page[k].structuredData # <<>>)
  /\ \A k \in 1..Len(metadata) :
       IF SlugExists(metadata[k].slug)
       THEN metadata[k].value.title # "Post Not Found"
       ELSE /\ DOMAIN metadata[k].value = {"title"}
            /\ metadata[k].value.title = "Post Not Found"

\* The slug "a" was requested while only "ab" and others are posts: the page
\* is the not-found page and the metadata of the same slug were generated.
C2_Witness ==
  /\ page # <<>>
  /\ metadata # <<>>
  /\ page[1].slug = <<"a">>
  /\ metadata[1].slug = <<"a">>
  /\ page[1].notFound
  /\ SlugExists(<<"a", "b">>)

\* ------------------------------------------------------------------ C3

\* C3: no call of getAllPosts, getPostBySlug, getPostsByTag or getAllTags
\* changes the sequence of posts stored in blogPosts.
C3_BlogPostsNeverMutated ==
  [][(CallGetAllPosts \/ CallGetPostBySlug \/ CallGetPostsByTag \/ CallGetAllTags)
       => blogPosts' = blogPosts]_vars

\* ------------------------------------------------------------------ C6

\* C6: the mobile menu starts closed; a click on the menu button flips
\* isOpen, Escape and a click on a mobile link leave it false, and no scroll,
\* no other key and no other step of the Header changes it.
C6_MenuIsAToggle ==
  /\ isOpen = FALSE
  /\ [][/\ ClickMenuButton => (isOpen' = ~isOpen)
        /\ (KeyDown("Escape") \/ ClickMobileLink) => (isOpen' = FALSE)
        /\ (\/ \E key \in Keys \ {"Escape"} : KeyDown(key)
            \/ \E y \in ScrollPositions : Scroll(y)
            \/ RunOverflowEffect
            \/ ExitComplete
            \/ Unmount) => (isOpen' = isOpen)
        /\ (isOpen' # isOpen) => (ClickMenuButton \/ KeyDown("Escape") \/ ClickMobileLink)]_vars

\* Escape has just closed a menu that was open: the body is still locked
\* and the effect has yet to run.
C6_Witness ==
  /\ lastEvent = [type |-> "keydown", key |-> "Escape"]
  /\ ~isOpen
  /\ effectPending
  /\ bodyOverflow = "hidden"

\* ------------------------------------------------------------------ C5

\* Both processes have loaded the module with the same siteConfig,
\* projectsData and faqData and have generated the script.
SameInputsBothGenerated ==
  /\ schemaScript[1] # <<>>
  /\ schemaScript[2] # <<>>
  /\ schemaModule[1][1].inputs = schemaModule[2][1].inputs

\* The UTC calendar day of hour h.
UtcDay(h) == h \div 24

\* A dateModified value starts at position i of the script.
DateModifiedAt(js, i) ==
  i > 5 /\ SubSeq(js, i - 5, i - 1) = <<QUOT, "dateModified", QUOT, ":", QUOT>>

\* The script with the ten characters of every dateModified value blanked.
BlankDateModified(js) ==
  [i \in 1..Len(js) |->
     IF \E k \in 0..9 : DateModifiedAt(js, i - k) THEN "?" ELSE js[i]]

\* C5 as stated: two evaluations with the same inputs return the same
\* string, whatever the dates of the two evaluations.
C5_SameScriptAtAnyDate ==
  SameInputsBothGenerated => schemaScript[1] = schemaScript[2]

\* C5 as amended: two evaluations with the same inputs return the same
\* string when they are made on the same UTC calendar day; made on different
\* days, the strings are the same but for the dateModified values.
C5_SameScriptOnSameDay ==
  SameInputsBothGenerated =>
    /\ UtcDay(schemaModule[1][1].at) = UtcDay(schemaModule[2][1].at)
         => schemaScript[1] = schemaScript[2]
    /\ BlankDateModified(schemaScript[1][1]) = BlankDateModified(schemaScript[2][1])

\* Two evaluations with the same inputs at different hours of one day, both
\* scripts generated.
C5_Witness ==
  /\ SameInputsBothGenerated
  /\ schemaModule[1][1].at # schemaModule[2][1].at
  /\ UtcDay(schemaModule[1][1].at) = UtcDay(schemaModule[2][1].at)
  /\ Len(schemaModule[1][1].inputs.projects) = 2

\* ------------------------------------------------------------------ C11

\* The line (counted from 1) that produced element e: the line of its key,
\* or the end of the content for the block left open.
ProducedBy(e) == IF e.pre = "code-end" THEN Len(lines) + 1 ELSE e.idx + 1

\* The lines among the first n that make an element of their own: heading,
\* separator and paragraph lines outside the code blocks.
ElementLines(n) == { i \in 1..n : OutsideBlock(i) /\ LineTests(lines[i]) # {"blank"} }

\* The code blocks the first n lines have closed, plus the block the end of
\* the content closes once the loop is over.
BlocksProduced(n) ==
  (Cardinality(FenceLines(n)) \div 2)
    + (IF pc = "done" /\ NumFences % 2 = 1 /\ NthFence(NumFences) < Len(lines) THEN 1 ELSE 0)

\* C11: in page.tsx, at every step, the elements stand in the order of the
\* lines that produced them (a code block is produced by its closing fence,
\* or by the end of the content), none is produced by a line not yet read,
\* and their number is the number of heading, separator and paragraph lines
\* outside code blocks plus the number of code blocks.
C11_ElementsInSourceOrder ==
  copy = "page" =>
    /\ \A k, m \in 1..Len(elements) :
         k < m => ProducedBy(elements[k]) < ProducedBy(elements[m])
    /\ \A k \in 1..Len(elements) :
         ProducedBy(elements[k]) <= (IF pc = "done" THEN Len(lines) + 1 ELSE index)
    /\ Len(elements) = Cardinality(ElementLines(index)) + BlocksProduced(index)

\* A finished run of page.tsx: a paragraph, a closed code block and the
\* block the end of the content closes, in this order.
C11_Witness ==
  /\ pc = "done"
  /\ copy = "page"
  /\ Kinds(elements) = <<"p", "pre", "pre">>
  /\ elements[3].pre = "code-end"

\* ------------------------------------------------------------------ C12

\* The heading elements and the length of the marker of each kind.
HeadingKinds == {"h1", "h2", "h3"}

MarkerLen(kind) == CASE kind = "h1" -> 2 [] kind = "h2" -> 3 [] kind = "h3" -> 4

\* C12: in page.tsx the text shown for every heading is the heading's line
\* without its leading marker, whatever characters the line holds.
C12_HeadingShowsSourceText ==
  \A k \in 1..Len(elements) :
    (copy = "page" /\ elements[k].kind \in HeadingKinds) =>
      LET line == lines[elements[k].idx + 1]
      IN  HeadingTextShown(elements[k]) = SubSeq(line, MarkerLen(elements[k].kind) + 1, Len(line))

\* ------------------------------------------------------------------ C13

\* A line read as whole delimiters and characters: "BOLD" for two stars,
\* "CODE" for a grave accent, "BAD" for a star that is alone, the character
\* itself otherwise.
RECURSIVE Tokens(_)
Tokens(l) ==
  IF l = <<>> THEN <<>>
  ELSE IF HasPrefix(l, <<STAR, STAR>>) THEN <<"BOLD">> \o Tokens(SubSeq(l, 3, Len(l)))
  ELSE IF l[1] = STAR THEN <<"BAD">> \o Tokens(Tail(l))
  ELSE IF l[1] = TICK THEN <<"CODE">> \o Tokens(Tail(l))
  ELSE <<l[1]>> \o Tokens(Tail(l))

Delims == {"BOLD", "CODE"}

\* The place of the first d in ts, 0 when there is none.
FirstIndex(ts, d) ==
  IF \E j \in 1..Len(ts) : ts[j] = d
  THEN CHOOSE j \in 1..Len(ts) : ts[j] = d /\ \A m \in 1..(j - 1) : ts[m] # d
  ELSE 0

\* The tokens are a row of plain characters, of pairs of one delimiter
\* around one or more plain characters, and of delimiters with no partner
\* after them: the pairs are disjoint and none is inside another.
RECURSIVE DisjointPairs(_)
DisjointPairs(ts) ==
  IF ts = <<>> THEN TRUE
  ELSE IF ts[1] \notin Delims THEN ts[1] # "BAD" /\ DisjointPairs(Tail(ts))
  ELSE LET rest == Tail(ts)
           j == FirstIndex(rest, ts[1])
       IN  IF j = 0 THEN DisjointPairs(rest)
           ELSE /\ j > 1
                /\ \A m \in 1..(j - 1) : rest[m] \notin (Delims \cup {"BAD"})
                /\ DisjointPairs(SubSeq(rest, j + 1, Len(rest)))

\* The number of pairs of delimiter d in such a row.
RECURSIVE PairCount(_, _)
PairCount(ts, d) ==
  IF ts = <<>> THEN 0
  ELSE IF ts[1] \notin Delims THEN PairCount(Tail(ts), d)
  ELSE LET rest == Tail(ts)
           j == FirstIndex(rest, ts[1])
       IN  IF j = 0 THEN PairCount(rest, d)
           ELSE (IF ts[1] = d THEN 1 ELSE 0) + PairCount(SubSeq(rest, j + 1, Len(rest)), d)

\* One character as it stands in the markup: itself, or its entity.
EntityOf(c) ==
  CASE c = AMP -> <<"&", "a", "m", "p", ";">>
    [] c = LT -> <<"&", "l", "t", ";">>
    [] c = GT -> <<"&", "g", "t", ";">>
    [] c = QUOT -> <<"&", "q", "u", "o", "t", ";">>
    [] c = APOS -> <<"&", "#", "0", "3", "9", ";">>
    [] OTHER -> <<c>>

RECURSIVE EntitiesOf(_)
EntitiesOf(cs) == IF cs = <<>> THEN <<>> ELSE EntityOf(cs[1]) \o EntitiesOf(Tail(cs))

\* The markup such a row stands for: each pair is its tag around the text it
\* encloses, a delimiter without partner is itself, every character is
\* itself or its entity.
RECURSIVE ExpectedMarkup(_)
ExpectedMarkup(ts) ==
  IF ts = <<>> THEN <<>>
  ELSE IF ts[1] \notin Delims THEN EntityOf(ts[1]) \o ExpectedMarkup(Tail(ts))
  ELSE LET rest == Tail(ts)
           j == FirstIndex(rest, ts[1])
           bold == ts[1] = "BOLD"
       IN  IF j = 0
           THEN (IF bold THEN <<STAR, STAR>> ELSE <<TICK>>) \o ExpectedMarkup(rest)
           ELSE (IF bold THEN StrongOpen ELSE CodeOpen)
                  \o EntitiesOf(SubSeq(rest, 1, j - 1))
                  \o (IF bold THEN StrongClose ELSE CodeClose)
                  \o ExpectedMarkup(SubSeq(rest, j + 1, Len(rest)))

\* C13: in page.tsx, a paragraph whose line is a row of disjoint pairs, not
\* nested, of k bold and m code pairs has exactly k <strong> and m <code>
\* elements, each around exactly the text its pair encloses; a delimiter
\* without partner stays as it is, and the text outside is the line's text
\* with its characters escaped.
C13_DisjointPairsBecomeTags ==
  \A k \in 1..Len(elements) :
    (copy = "page" /\ elements[k].kind = "p") =>
      LET ts == Tokens(lines[elements[k].idx + 1])
          html == elements[k].text
      IN  DisjointPairs(ts) =>
            /\ html = ExpectedMarkup(ts)
            /\ CountOcc(html, StrongOpen) = PairCount(ts, "BOLD")
            /\ CountOcc(html, StrongClose) = PairCount(ts, "BOLD")
            /\ CountOcc(html, CodeOpen) = PairCount(ts, "CODE")
            /\ CountOcc(html, CodeClose) = PairCount(ts, "CODE")

\* A paragraph of page.tsx whose line has one bold pair and one code pair,
\* each around a character that is escaped.
C13_Witness ==
  /\ pc = "done"
  /\ copy = "page"
  /\ \E k \in 1..Len(elements) :
       /\ elements[k].kind = "p"
       /\ DisjointPairs(Tokens(lines[elements[k].idx + 1]))
       /\ PairCount(Tokens(lines[elements[k].idx + 1]), "BOLD") = 1
       /\ PairCount(Tokens(lines[elements[k].idx + 1]), "CODE") = 1
       /\ CountOcc(elements[k].text, LtEntity) = 2

\* ------------------------------------------------------------------ C14

\* Reading the markup h from position i with the elements in open (the
\* innermost last): every closing tag closes the innermost open element,
\* and none is left open at the end.
RECURSIVE WellNestedFrom(_, _, _)
WellNestedFrom(h, i, open) ==
  IF i > Len(h) THEN open = <<>>
  ELSE IF OccursAt(h, StrongOpen, i) THEN WellNestedFrom(h, i + Len(StrongOpen), Append(open, "strong"))
  ELSE IF OccursAt(h, CodeOpen, i) THEN WellNestedFrom(h, i + Len(CodeOpen), Append(open, "code"))
  ELSE IF OccursAt(h, StrongClose, i) THEN
    /\ open # <<>>
    /\ open[Len(open)] = "strong"
    /\ WellNestedFrom(h, i + Len(StrongClose), SubSeq(open, 1, Len(open) - 1))
  ELSE IF OccursAt(h, CodeClose, i) THEN
    /\ open # <<>>
    /\ open[Len(open)] = "code"
    /\ WellNestedFrom(h, i + Len(CodeClose), SubSeq(open, 1, Len(open) - 1))
  ELSE WellNestedFrom(h, i + 1, open)

WellNested(h) == WellNestedFrom(h, 1, <<>>)

\* C14: in page.tsx the markup of every paragraph is well-formed: each
\* <strong> and <code> is closed, and closed before the element around it.
C14_ParagraphMarkupWellFormed ==
  \A k \in 1..Len(elements) :
    (copy = "page" /\ elements[k].kind = "p") => WellNested(elements[k].text)

\* ------------------------------------------------------------------ C15

\* C15: while the Header is mounted and its [isOpen] effect has run,
\* document.body.style.overflow is "hidden" exactly when the menu is open
\* and "" otherwise; once the Header is unmounted it is "", open or not.
C15_BodyLockedIffMenuOpen ==
  /\ (mounted /\ ~effectPending) => (bodyOverflow = (IF isOpen THEN "hidden" ELSE ""))
  /\ ~mounted => bodyOverflow = ""

\* The menu was opened and a mobile link has closed it again; the effect
\* has run and the body is released.
C15_Witness ==
  /\ mounted
  /\ ~effectPending
  /\ ~isOpen
  /\ bodyOverflow = ""
  /\ lastEvent = [type |-> "click-link", key |-> ""]

\* ------------------------------------------------------------------ C16

\* The animated version of what was rendered: the same component with the
\* same props for a user who does not prefer reduced motion.
AnimatedVersion == RenderMotion(rendered[1].component, rendered[1].props, FALSE)

\* C16: for a user who prefers reduced motion each of the four components
\* returns a plain element, not a framer-motion one, of the tag of its
\* animated version (section for MotionSection, div for the others), with
\* the children and className it was given, and with no initial, animate,
\* exit, whileInView, transition, viewport or variants.
C16_ReducedMotionIsStatic ==
  (rendered # <<>> /\ shouldReduceMotion) =>
    LET r == rendered[1]
        e == r.element
    IN  /\ ~e.animated
        /\ e.tag = (IF r.component = "MotionSection" THEN "section" ELSE "div")
        /\ e.tag = AnimatedVersion.tag
        /\ e.children = r.props.children
        /\ e.children = AnimatedVersion.children
        /\ e.className = r.props.className
        /\ e.className = AnimatedVersion.className
        /\ e.initial = <<>> /\ e.animate = <<>> /\ e.exit = <<>>
        /\ e.whileInView = <<>> /\ e.transition = <<>>
        /\ e.viewport = <<>> /\ e.variants = <<>>

\* MotionSection was rendered with a className, variants and a delay for a
\* user who prefers reduced motion.
C16_Witness ==
  /\ shouldReduceMotion
  /\ rendered # <<>>
  /\ rendered[1].component = "MotionSection"
  /\ rendered[1].props.className # <<>>
  /\ rendered[1].props.variants # <<>>
  /\ rendered[1].props.delay # <<>>

\* ------------------------------------------------------------------ C17

\* C17: every extra HTML prop the caller passes is applied to the element
\* rendered, whether the user prefers reduced motion or not.
C17_ExtraPropsAlwaysApplied ==
  rendered # <<>> => rendered[1].props.rest \subseteq rendered[1].element.attrs

\* ------------------------------------------------------------------ C18

\* r holds the posts of a, each once: r is a along the one-to-one map f
\* of the positions.
Rearranges(r, a, f) == Len(r) = Len(a) /\ \A i \in 1..Len(r) : r[i] = a[f[i]]

\* C18: every call of getAllPosts returns the posts of blogPosts as they
\* were at the call, each exactly once, from the newest date to the oldest,
\* posts of one date in the order they had in blogPosts.
C18_AllPostsNewestFirstStable ==
  [][(returned'.fn = "getAllPosts" /\ CallGetAllPosts) =>
       LET r == returned'.value
       IN  \E f \in Permutations(1..Len(blogPosts)) :
             /\ Rearranges(r, blogPosts, f)
             /\ \A i, j \in 1..Len(r) :
                  i < j => /\ DateTime(r[i].date) >= DateTime(r[j].date)
                           /\ r[i].date = r[j].date => f[i] < f[j]]_vars

\* getAllPosts has returned three posts: the newest first, then the two
\* posts of one date.
C18_Witness ==
  /\ returned.fn = "getAllPosts"
  /\ Len(returned.value) = 3
  /\ DateTime(returned.value[1].date) > DateTime(returned.value[2].date)
  /\ returned.value[2].date = returned.value[3].date
  /\ returned.value[2].slug = <<"b">>

\* ------------------------------------------------------------------ C19

\* The slugs generateStaticParams returned.
ParamSlugs == [k \in 1..Len(returned.value) |-> returned.value[k].slug]

\* C19: the slugs of the blogPosts literal are pairwise distinct, and so are
\* those of blogPosts at every step; getPostBySlug of a post's slug returns
\* that post; generateStaticParams returns one entry per post, the slug of
\* each post exactly once; and the page rendered for a post's slug is not
\* the not-found page and carries that post's slug, title and content.
C19_EveryPostHasItsPage ==
  /\ \A i, j \in 1..Len(ShippedSlugs) : i # j => ShippedSlugs[i] # ShippedSlugs[j]
  /\ \A i, j \in 1..Len(blogPosts) : i # j => blogPosts[i].slug # blogPosts[j].slug
  /\ \A i \in 1..Len(blogPosts) : getPostBySlug(blogPosts, blogPosts[i].slug) = <<blogPosts[i]>>
  /\ returned.fn = "generateStaticParams" =>
       /\ Len(ParamSlugs) = Len(blogPosts)
       /\ \A i \in 1..Len(blogPosts) :
            Cardinality({ k \in 1..Len(ParamSlugs) : ParamSlugs[k] = blogPosts[i].slug }) = 1
  /\ \A k \in 1..Len(page) : \A i \in 1..Len(blogPosts) :
       page[k].slug = blogPosts[i].slug =>
         /\ ~page[k].notFound
         /\ page[k].structuredData = <<blogPosts[i].slug>>
         /\ page[k].header = <<blogPosts[i].title>>
         /\ page[k].article = renderContent("page", blogPosts[i].content)

\* generateStaticParams has returned three slugs and the page of the slug
\* "a" was rendered while "ab" and "A" are posts too.
C19_Witness ==
  /\ returned.fn = "generateStaticParams"
  /\ Len(returned.value) = 3
  /\ page # <<>>
  /\ page[1].slug = <<"a">>
  /\ ~page[1].notFound
  /\ SlugExists(<<"a", "b">>)
  /\ SlugExists(<<"A">>)

\* ------------------------------------------------------------------ C20

\* The post of blogPosts with this slug.
PostOf(slug) == blogPosts[CHOOSE i \in 1..Len(blogPosts) : blogPosts[i].slug = slug]

\* The slugs of the posts other than slug, in the order of getAllPosts().
OthersInOrder(slug) ==
  LET all == getAllPosts(blogPosts)
      keep == { i \in 1..Len(all) : all[i].slug # slug }
  IN  [m \in 1..Cardinality(keep) |->
         all[CHOOSE i \in keep : Cardinality({ j \in keep : j <= i }) = m].slug]

C21_OneResetTimer ==
  /\ [](/\ Cardinality(timers) <= 1
        /\ submitted <=> timers # {}
        /\ \A t \in timers : t.submit = submits)
  /\ [][submits' # submits => (~submitted /\ timers = {})]_vars

\* The second submit is being confirmed, a part of its delay has passed, and
\* Enter was just pressed in a field without submitting again.
C21_Witness ==
  /\ submitted
  /\ submits = 2
  /\ contactEvent = "enter"
  /\ \E t \in timers : t.left > 0 /\ t.left < ResetDelay

====
